---- MODULE Spec2Model ----
(***************************************************************************)
(* State-machine model of rs-bin_patcher (src/src/main.rs, src/src/patch.rs) *)
(*                                                                         *)
(* build_patch : scan of two equal-length buffers, grow_section on every   *)
(*               raw section, pruning of emptied sections, section_merge,  *)
(*               and the write of the patch file.                          *)
(* apply_patch : optional detection pass, forward search-and-substitute    *)
(*               pass, and the write of the patched file.                  *)
(*                                                                         *)
(* Offsets are 0-based as in the source; At(s, k) reads s[k].  A Rust      *)
(* panic (slice or index out of range, arithmetic underflow, panic!) ends  *)
(* the run in pc = "panic" with the site recorded in fault.                *)
(***************************************************************************)
EXTENDS Integers, Sequences, FiniteSets, TLC

\* ------------------------------------------------------------------ bounds
MaxLen == 5
MaxFollow == 2
MaxGrow == 2
MaxTestLen == 4
MaxTarget == 4
MaxSections == 2
MaxPat == 2

\* ------------------------------------------------------- program constants
LoChar == 48
HiChar == 113

\* Byte values of the model: one below the only_char range, one inside it.
Bytes == {47, 48}

VARIABLES
    mode,           \* opt.mode: "Diff" or "Patch"
    opt,            \* the parsed Options: follow, only_char, detect, grow, test
    input,          \* contents of FILE1
    patched,        \* contents of FILE2 in Diff mode (the transformed buffer)
    rbp,            \* the patch file: <<>> when absent, <<sections>> when present
    out,            \* the "_patched" file: <<>> when absent, <<bytes>> when written
    pc,             \* control location
    fault,          \* site of the panic, "none" while there is none
    applied,        \* what apply_patch printed: "none", "failed", "applied"
    patch,          \* patch.sections
    i,              \* loop index `i` of the running function
    patching, section_index, fail_count, fail_continue, extra_search, extra_data,
    new_section, after, section_done, strategy, ping_pong,
    new_patch, count,
    result, section_count,
    raw,            \* ghost: patch.sections as the scan left them
    verdict         \* ghost: how the growth loop of each section ended

vars == << mode, opt, input, patched, rbp, out, pc, fault, applied, patch, i,
           patching, section_index, fail_count, fail_continue, extra_search,
           extra_data, new_section, after, section_done, strategy, ping_pong,
           new_patch, count, result, section_count, raw, verdict >>

scanVars == << patching, section_index, fail_count, fail_continue,
               extra_search, extra_data >>
growVars == << new_section, after, section_done, strategy, ping_pong >>
mergeVars == << new_patch, count >>
applyVars == << result, section_count >>
fileVars == << mode, opt, input, patched >>

\* ---------------------------------------------------------------- helpers
At(s, k) == s[k + 1]

\* s[a..=b] with 0-based inclusive offsets; empty when b < a
Slice(s, a, b) == [k \in 1..(b - a + 1) |-> s[a + k]]

SeqsUpTo(S, n) == UNION {[1..k -> S] : k \in 0..n}

None == <<>>
Some(x) == <<x>>
IsSome(o) == Len(o) = 1

\* PatchSection::default()
DefaultSection == [id |-> 0, start |-> 0, end |-> 0, search |-> <<>>, data |-> <<>>]

Min(a, b) == IF a <= b THEN a ELSE b

\* ------------------------------------------------------------- build_patch
\* main.rs:120
Valid(b, only_char) == (b >= LoChar /\ b <= HiChar) \/ ~only_char

\* One iteration of the scan loop, main.rs:119-160
ScanStep ==
    /\ pc = "scan"
    /\ i < Len(input)
    /\ LET b == At(input, i)
           p == At(patched, i)
           valid == Valid(b, opt.only_char)
       IN IF b # p /\ valid
          THEN LET opening == ~patching /\ ~fail_continue
                   idx == IF opening THEN section_index + 1 ELSE section_index
                   secs == IF opening
                           THEN Append(patch, [DefaultSection EXCEPT
                                                 !.id = idx, !.start = i])
                           ELSE patch
                   s1 == IF fail_continue
                         THEN [secs[idx] EXCEPT !.search = @ \o extra_search,
                                                !.data = @ \o extra_data]
                         ELSE secs[idx]
                   s2 == [s1 EXCEPT !.search = Append(@, b),
                                    !.data = Append(@, p),
                                    !.end = i]
               IN /\ patch' = [secs EXCEPT ![idx] = s2]
                  /\ section_index' = idx
                  /\ fail_count' = IF opening THEN 0 ELSE fail_count
                  /\ patching' = IF opening \/ fail_continue THEN TRUE ELSE patching
                  /\ extra_search' = IF fail_continue THEN <<>> ELSE extra_search
                  /\ extra_data' = IF fail_continue THEN <<>> ELSE extra_data
                  /\ fail_continue' = FALSE
          ELSE /\ IF fail_count < opt.follow /\ section_index > 0 /\ valid
                  THEN /\ extra_search' = Append(extra_search, b)
                       /\ extra_data' = Append(extra_data, p)
                       /\ fail_continue' = TRUE
                  ELSE /\ extra_search' = <<>>
                       /\ extra_data' = <<>>
                       /\ fail_continue' = FALSE
               /\ fail_count' = fail_count + 1
               /\ patching' = FALSE
               /\ UNCHANGED << patch, section_index >>
    /\ i' = i + 1
    /\ raw' = patch'
    /\ UNCHANGED << fileVars, rbp, out, pc, fault, applied, growVars, mergeVars,
                    applyVars, verdict >>

\* End of the scan loop, main.rs:162 and 195-199
ScanEnd ==
    /\ pc = "scan"
    /\ i = Len(input)
    /\ pc' = IF patch # <<>> THEN "grow" ELSE "done"
    /\ i' = 0
    /\ UNCHANGED << fileVars, rbp, out, fault, applied, patch, scanVars, growVars,
                    mergeVars, applyVars, raw, verdict >>

\* ------------------------------------------------------------ grow_section
\* The occurrence scan of main.rs:220-243 (capped: it stops once the count
\* exceeds 1) and of main.rs:386-404 (not capped), from offset k with c found.
Matches(buf, k, pat) ==
    \A j \in 0..(Len(pat) - 1) : k + j < Len(buf) /\ At(buf, k + j) = At(pat, j)

RECURSIVE CountFrom(_, _, _, _, _)
CountFrom(buf, pat, k, c, capped) ==
    IF k >= Len(buf) \/ (capped /\ c > 1) THEN c
    ELSE IF At(buf, k) = At(pat, 0) /\ Matches(buf, k, pat)
         THEN CountFrom(buf, pat, k + Len(pat), c + 1, capped)
         ELSE CountFrom(buf, pat, k + 1, c, capped)

\* main.rs:213-216
test_file == IF IsSome(opt.test) THEN opt.test[1] ELSE input

\* A Rust slice s[a..=b] is in range
SliceOk(s, a, b) == a <= b + 1 /\ b + 1 <= Len(s)

\* main.rs:305-313
AppendFaults(section, amount) ==
    ~SliceOk(input, section.end + 1, Min(section.end + amount, Len(input)))

\* section_append as it would be if only the search pattern were extended
section_append_search_only(section, amount) ==
    LET hi == Min(section.end + amount, Len(input))
    IN [section EXCEPT !.search = @ \o Slice(input, section.end + 1, hi),
                       !.end = @ + amount]

section_append(section, amount) ==
    LET hi == Min(section.end + amount, Len(input))
    IN [section EXCEPT !.search = @ \o Slice(input, section.end + 1, hi),
                       !.data = @ \o Slice(patched, section.end + 1, hi),
                       !.end = @ + amount]

\* main.rs:316-322
section_preappend(section) ==
    IF section.start > 0
    THEN [section EXCEPT !.search = <<At(input, section.start - 1)>> \o @,
                         !.data = <<At(patched, section.start - 1)>> \o @,
                         !.start = @ - 1]
    ELSE section

\* Call of grow_section on patch.sections[i], main.rs:164-166 and 209-218
GrowEnter ==
    /\ pc = "grow"
    /\ i < Len(patch)
    /\ new_section' = patch[i + 1]
    /\ after' = 0
    /\ section_done' = FALSE
    /\ strategy' = 0
    /\ ping_pong' = FALSE
    /\ pc' = "grow_loop"
    /\ UNCHANGED << fileVars, rbp, out, fault, applied, patch, i, scanVars,
                    mergeVars, applyVars, raw, verdict >>

\* The strategies as they would be if prepend came first
UsesAppendSwapped == strategy = 1 \/ (strategy = 2 /\ ping_pong)

\* Which growth step an ambiguous count takes, main.rs:246-257
UsesAppend == strategy = 0 \/ (strategy = 2 /\ ping_pong)

\* One iteration of `while after <= max_grow`, main.rs:219-277, together with
\* the test of the loop condition that follows it
GrowIter ==
    /\ pc = "grow_loop"
    /\ LET c == CountFrom(test_file, new_section.search, 0, 0, TRUE)
       IN CASE c > 1 ->
                 IF UsesAppend /\ AppendFaults(new_section, 1)
                 THEN /\ pc' = "panic"
                      /\ fault' = "section_append"
                      /\ after' = after + 1
                      /\ UNCHANGED << new_section, section_done, strategy,
                                      ping_pong, patch, verdict >>
                 ELSE /\ after' = after + 1
                      /\ new_section' = IF UsesAppend
                                        THEN section_append(new_section, 1)
                                        ELSE section_preappend(new_section)
                      /\ ping_pong' = IF strategy = 2 THEN ~ping_pong ELSE ping_pong
                      /\ pc' = IF after + 1 <= opt.grow THEN "grow_loop" ELSE "grow_fix"
                      /\ verdict' = IF after + 1 <= opt.grow THEN verdict
                                    ELSE Append(verdict, "exhausted")
                      /\ UNCHANGED << section_done, strategy, patch, fault >>
            [] c = 1 ->
                 /\ section_done' = TRUE
                 /\ pc' = "grow_fix"
                 /\ verdict' = Append(verdict, "unique")
                 /\ UNCHANGED << new_section, after, strategy, ping_pong, patch,
                                 fault >>
            [] c = 0 ->
                 IF strategy = 2
                 THEN /\ patch' = IF IsSome(opt.test)
                                  THEN [patch EXCEPT ![i + 1].search = <<>>,
                                                     ![i + 1].data = <<>>]
                                  ELSE patch
                      /\ pc' = "grow_fix"
                      /\ verdict' = Append(verdict, IF IsSome(opt.test)
                                                    THEN "cleared" ELSE "absent")
                      /\ UNCHANGED << new_section, after, section_done, strategy,
                                      ping_pong, fault >>
                 ELSE /\ strategy' = strategy + 1
                      /\ after' = 0
                      /\ new_section' = patch[i + 1]
                      /\ UNCHANGED << pc, section_done, ping_pong, patch, fault,
                                      verdict >>
    /\ UNCHANGED << fileVars, rbp, out, applied, i, scanVars, mergeVars,
                    applyVars, raw >>

\* The test of main.rs:278 as it would be without section_done
FixedAnyGrowth == after > 0

\* The section takes the grown pattern, main.rs:278
Fixed == section_done /\ after > 0

\* After the loop, main.rs:278-301, and the return to the caller's loop
GrowFix ==
    /\ pc = "grow_fix"
    /\ patch' = IF Fixed
                THEN [patch EXCEPT ![i + 1].start = new_section.start,
                                   ![i + 1].end = new_section.end,
                                   ![i + 1].search = new_section.search,
                                   ![i + 1].data = new_section.data]
                ELSE patch
    /\ i' = i + 1
    /\ pc' = "grow"
    /\ UNCHANGED << fileVars, rbp, out, fault, applied, scanVars, growVars,
                    mergeVars, applyVars, raw, verdict >>

\* The filter of emptied sections, main.rs:168-177
NonEmpty(sections) == SelectSeq(sections, LAMBDA s : s.search # <<>>)

Prune ==
    /\ pc = "grow"
    /\ i = Len(patch)
    /\ patch' = IF Len(NonEmpty(patch)) # Len(patch) THEN NonEmpty(patch) ELSE patch
    /\ pc' = "merge"
    /\ UNCHANGED << fileVars, rbp, out, fault, applied, i, scanVars, growVars,
                    mergeVars, applyVars, raw, verdict >>

\* ----------------------------------------------------------- section_merge
RemoveAt(s, k) == [j \in 1..(Len(s) - 1) |-> IF j < k THEN s[j] ELSE s[j + 1]]

\* Entry, main.rs:326-331.  `len() - 1` on an empty vector underflows: a panic
\* in a checked build, and an index out of range at main.rs:333 otherwise.
MergeEnter ==
    /\ pc = "merge"
    /\ IF Len(patch) = 1
       THEN /\ pc' = "write"
            /\ UNCHANGED << new_patch, i, count, fault >>
       ELSE IF Len(patch) = 0
            THEN /\ pc' = "panic"
                 /\ fault' = "merge_empty"
                 /\ UNCHANGED << new_patch, i, count >>
            ELSE /\ new_patch' = patch
                 /\ i' = 0
                 /\ count' = Len(patch) - 1
                 /\ pc' = "merge_loop"
                 /\ UNCHANGED fault
    /\ UNCHANGED << fileVars, rbp, out, applied, patch, scanVars, growVars,
                    applyVars, raw, verdict >>

\* The offsets of main.rs:336-337
MergeStart(a) == a.end - a.start
MergeEnd(a, b) == b.end - a.end

\* The splice of main.rs:336-346 faults: the subtraction underflows or the
\* slice is out of range
MergeFaults(a, b) ==
    \/ b.end < a.end
    \/ ~SliceOk(b.search, MergeStart(a), MergeEnd(a, b))
    \/ ~SliceOk(b.data, MergeStart(a), MergeEnd(a, b))

Spliced(a, b) ==
    [a EXCEPT !.search = @ \o Slice(b.search, MergeStart(a), MergeEnd(a, b)),
              !.data = @ \o Slice(b.data, MergeStart(a), MergeEnd(a, b)),
              !.end = b.end]

\* One iteration of `while i < count`, main.rs:332-351
MergeStep ==
    /\ pc = "merge_loop"
    /\ i < count
    /\ LET a == new_patch[i + 1]
           b == new_patch[i + 2]
       IN IF a.end >= b.start
          THEN IF MergeFaults(a, b)
               THEN /\ pc' = "panic"
                    /\ fault' = "section_merge"
                    /\ UNCHANGED << new_patch, i, count >>
               ELSE /\ new_patch' = RemoveAt([new_patch EXCEPT ![i + 1] = Spliced(a, b)],
                                             i + 2)
                    /\ count' = Len(new_patch) - 2
                    /\ UNCHANGED << pc, fault, i >>
          ELSE /\ i' = i + 1
               /\ UNCHANGED << pc, fault, new_patch, count >>
    /\ UNCHANGED << fileVars, rbp, out, applied, patch, scanVars, growVars,
                    applyVars, raw, verdict >>

\* After the loop, main.rs:352-360
MergeExit ==
    /\ pc = "merge_loop"
    /\ i >= count
    /\ patch' = IF Len(new_patch) < Len(patch) THEN new_patch ELSE patch
    /\ pc' = "write"
    /\ UNCHANGED << fileVars, rbp, out, fault, applied, i, scanVars, growVars,
                    mergeVars, applyVars, raw, verdict >>

\* The patch file is written, main.rs:183-194, and build_patch returns
WritePatch ==
    /\ pc = "write"
    /\ rbp' = Some(patch)
    /\ pc' = "done"
    /\ UNCHANGED << fileVars, out, fault, applied, patch, i, scanVars, growVars,
                    mergeVars, applyVars, raw, verdict >>

\* -------------------------------------------------------------- apply_patch
\* A second run of the program, in Mode::Patch, on the source file and the
\* patch file the Diff run wrote (main.rs:81-90)
RunPatch ==
    /\ pc = "done"
    /\ mode = "Diff"
    /\ IsSome(rbp)
    /\ mode' = "Patch"
    /\ pc' = "apply"
    /\ UNCHANGED << opt, input, patched, rbp, out, fault, applied, patch, i,
                    scanVars, growVars, mergeVars, applyVars, raw, verdict >>

\* The count the detection pass leaves in section_count, main.rs:381-406:
\* it is set to 0 at the start of every section's scan
RECURSIVE DetectCount(_, _, _)
DetectCount(sections, k, c) ==
    IF k > Len(sections) THEN c
    ELSE DetectCount(sections, k + 1, CountFrom(input, sections[k].search, 0, 0, FALSE))

\* The patch is loaded and the detection pass run, main.rs:365-409
ApplyDetect ==
    /\ pc = "apply"
    /\ patch' = rbp[1]
    /\ section_index' = 0
    /\ i' = 0
    /\ result' = <<>>
    /\ section_count' = IF opt.detect THEN DetectCount(rbp[1], 1, 0) ELSE 0
    /\ IF section_count' > Len(rbp[1])
       THEN pc' = "panic" /\ fault' = "too_many_sections"
       ELSE pc' = "apply_scan" /\ UNCHANGED fault
    /\ UNCHANGED << fileVars, rbp, out, applied, patching, fail_count, fail_continue,
                    extra_search, extra_data, growVars, mergeVars, raw, verdict >>

\* The validation loop of main.rs:419-424 at offset k: the offsets j at which
\* it stops, by a mismatch or by reading input[k + j] past the end
Stops(k, pat) ==
    {j \in 0..(Len(pat) - 1) : k + j >= Len(input) \/ At(input, k + j) # At(pat, j)}

FirstStop(k, pat) == CHOOSE j \in Stops(k, pat) : \A l \in Stops(k, pat) : j <= l

\* One iteration of the search loop, main.rs:413-442
ApplyStep ==
    /\ pc = "apply_scan"
    /\ i < Len(input)
    /\ section_index < Len(patch)
    /\ LET section == patch[section_index + 1]
       IN IF At(input, i) = At(section.search, 0)
          THEN IF Stops(i, section.search) = {}
               THEN /\ result' = result \o section.data
                    /\ section_index' = section_index + 1
                    /\ i' = i + Len(section.search)
                    /\ UNCHANGED << pc, fault >>
               ELSE IF i + FirstStop(i, section.search) >= Len(input)
                    THEN /\ pc' = "panic"
                         /\ fault' = "apply_index"
                         /\ UNCHANGED << result, section_index, i >>
                    ELSE /\ result' = Append(result, At(input, i))
                         /\ i' = i + 1
                         /\ UNCHANGED << pc, fault, section_index >>
          ELSE /\ result' = Append(result, At(input, i))
               /\ i' = i + 1
               /\ UNCHANGED << pc, fault, section_index >>
    /\ UNCHANGED << fileVars, rbp, out, applied, patch, patching, fail_count,
                    fail_continue, extra_search, extra_data, growVars, mergeVars,
                    section_count, raw, verdict >>

\* After the loop, main.rs:444-474
ApplyFinish ==
    /\ pc = "apply_scan"
    /\ ~(i < Len(input) /\ section_index < Len(patch))
    /\ result' = IF i < Len(input)
                 THEN result \o Slice(input, i, Len(input) - 1)
                 ELSE result
    /\ IF section_index # Len(patch)
       THEN applied' = "failed" /\ UNCHANGED out
       ELSE applied' = "applied" /\ out' = Some(result')
    /\ pc' = "done"
    /\ UNCHANGED << fileVars, rbp, fault, patch, i, scanVars, growVars, mergeVars,
                    section_count, raw, verdict >>

\* ------------------------------------------------------------------- init
Pairs == UNION {[1..n -> Bytes] \X [1..n -> Bytes] : n \in 0..MaxLen}

InitLocals ==
    /\ out = None
    /\ fault = "none"
    /\ applied = "none"
    /\ patch = <<>>
    /\ i = 0
    /\ patching = FALSE
    /\ section_index = 0
    /\ fail_count = 0
    /\ fail_continue = FALSE
    /\ extra_search = <<>>
    /\ extra_data = <<>>
    /\ new_section = DefaultSection
    /\ after = 0
    /\ section_done = FALSE
    /\ strategy = 0
    /\ ping_pong = FALSE
    /\ new_patch = <<>>
    /\ count = 0
    /\ result = <<>>
    /\ section_count = 0
    /\ raw = <<>>
    /\ verdict = <<>>

\* The --test option: absent, or (for buffers of at most MaxTestLen bytes) a
\* test file holding the bytes of the transformed file
TestFiles(source, transformed) ==
    {None} \cup (IF Len(source) <= MaxTestLen THEN {Some(transformed)} ELSE {})

\* main.rs:81-86 with Mode::Diff, after the size check of main.rs:95-107
InitDiff ==
    /\ mode = "Diff"
    /\ \E pr \in Pairs :
          /\ input = pr[1]
          /\ patched = pr[2]
          /\ \E f \in 0..MaxFollow, g \in 0..MaxGrow, oc \in BOOLEAN,
                t \in TestFiles(pr[1], pr[2]) :
                opt = [follow |-> f, only_char |-> oc, detect |-> FALSE,
                       grow |-> g, test |-> t]
    /\ pc = "scan"
    /\ rbp = None
    /\ InitLocals

\* The patch files of the Patch-mode runs: up to MaxSections sections, each
\* with a non-empty search pattern and a replacement of the same length
Flip(b) == IF b = 47 THEN 48 ELSE 47

Patterns == SeqsUpTo(Bytes, MaxPat) \ {<<>>}

SectionOf(k, pat) ==
    [id |-> k, start |-> 0, end |-> Len(pat) - 1, search |-> pat,
     data |-> [j \in 1..Len(pat) |-> Flip(pat[j])]]

PatchFiles ==
    UNION {{[k \in 1..n |-> SectionOf(k, ps[k])] : ps \in [1..n -> Patterns]} :
           n \in 0..MaxSections}

\* main.rs:81-90 with Mode::Patch
InitPatch ==
    /\ mode = "Patch"
    /\ input \in SeqsUpTo(Bytes, MaxTarget)
    /\ patched = <<>>
    /\ \E d \in BOOLEAN :
          opt = [follow |-> 0, only_char |-> FALSE, detect |-> d, grow |-> 0,
                 test |-> None]
    /\ pc = "apply"
    /\ InitLocals
    /\ rbp \in {Some(pf) : pf \in PatchFiles}

Init == InitDiff

\* build_patch
Next ==
    \/ ScanStep \/ ScanEnd
    \/ GrowEnter \/ GrowIter \/ GrowFix \/ Prune
    \/ MergeEnter \/ MergeStep \/ MergeExit \/ WritePatch

\* apply_patch
NextApply == ApplyDetect \/ ApplyStep \/ ApplyFinish

\* build_patch, then apply_patch on the source and the patch just written
NextRoundTrip == Next \/ RunPatch \/ NextApply

Spec == Init /\ [][Next]_vars

SpecApply == InitPatch /\ [][NextApply]_vars

SpecRoundTrip == Init /\ [][NextRoundTrip]_vars

\* ------------------------------------------------------------------ claims
SectionsOf(sections) == {sections[k] : k \in 1..Len(sections)}

\* The section holds exactly the bytes of its span start..=end
HoldsSpan(s) ==
    /\ s.start <= s.end
    /\ s.end < Len(input)
    /\ s.search = Slice(input, s.start, s.end)
    /\ s.data = Slice(patched, s.start, s.end)

\* C2: every section of the patch under construction, of the working copy of
\* grow_section and of the working copy of section_merge has a search pattern
\* and a replacement of the same length, in every state of the diff pipeline.
C2_LengthInvariant ==
    \A s \in SectionsOf(patch) \cup SectionsOf(new_patch) \cup {new_section} :
        Len(s.search) = Len(s.data)

\* C2 witness: a merge splice has been made on a patch one section of which
\* was grown
C2_Witness ==
    /\ pc = "merge_loop"
    /\ Len(new_patch) < Len(patch)
    /\ \E k \in 1..Len(raw) : Len(patch[k].search) > Len(raw[k].search)

\* C2 witness of the pruning case: a section has been cleared and removed
C2_WitnessPrune ==
    /\ pc = "merge"
    /\ 0 < Len(patch)
    /\ Len(patch) < Len(raw)

\* C10: after the scan every raw section is the contiguous slice start..=end
\* of the two buffers.
C10_RawContiguous ==
    pc # "scan" => \A s \in SectionsOf(raw) : HoldsSpan(s)

\* The offsets at which the two buffers differ
Mismatches == {k \in 0..(Len(input) - 1) : At(input, k) # At(patched, k)}

Successive(p, q) ==
    /\ p \in Mismatches
    /\ q \in Mismatches
    /\ p < q
    /\ \A k \in (p + 1)..(q - 1) : k \notin Mismatches

\* C4: with only_char off, two successive mismatches separated by at most
\* `follow` matching bytes lie in the same raw section.
C4_ToleranceGrouping ==
    (pc # "scan" /\ ~opt.only_char) =>
        \A p, q \in Mismatches :
            (Successive(p, q) /\ q - p - 1 <= opt.follow) =>
                \E s \in SectionsOf(raw) : s.start <= p /\ q <= s.end

\* C8: no growth step faults in section_append.
C8_AppendInBounds == fault # "section_append"

\* The least number of appended bytes that makes the span of r counted once
\* in the source by the occurrence scan of grow_section
CountedOnce(lo, hi) == CountFrom(input, Slice(input, lo, hi), 0, 0, TRUE) = 1

Extensions(r) == {k \in 0..(Len(input) - 1 - r.end) : CountedOnce(r.start, r.end + k)}

LeastExtension(r) == CHOOSE k \in Extensions(r) : \A l \in Extensions(r) : k <= l

Extended(r, k) ==
    [r EXCEPT !.end = r.end + k,
              !.search = Slice(input, r.start, r.end + k),
              !.data = Slice(patched, r.start, r.end + k)]

Disambiguable(r) ==
    /\ HoldsSpan(r)
    /\ Extensions(r) # {}
    /\ LeastExtension(r) <= opt.grow

\* C6: with the source as reference, a raw section holding its span, whose
\* least unique extension k by append exists within the buffer and within the
\* budget, leaves grow_section after exactly k steps with the same start,
\* end + k and the bytes of start..=end+k; for k = 0 it is unchanged.
\* Stated of the section whose growth loop has just ended (pc = "grow_fix")
\* and of the section grow_section has just returned (pc = "grow").
C6_LeastUniqueAppend ==
    (opt.test = None /\ pc \in {"grow_fix", "grow"}) =>
        LET j == IF pc = "grow_fix" THEN i + 1 ELSE i
        IN (j >= 1 /\ HoldsSpan(raw[j]) /\ Extensions(raw[j]) # {}) =>
              LET k == LeastExtension(raw[j])
              IN k <= opt.grow =>
                    IF pc = "grow_fix"
                    THEN /\ section_done
                         /\ strategy = 0
                         /\ after = k
                         /\ new_section = Extended(raw[j], k)
                    ELSE patch[j] = Extended(raw[j], k)

\* C6 witness: grow_section has returned for a section that needed two bytes
\* appended, after one that was unique as the scan left it
C6_Witness ==
    /\ opt.test = None
    /\ pc = "grow"
    /\ \E j, l \in 1..i :
          /\ Disambiguable(raw[j])
          /\ LeastExtension(raw[j]) = 2
          /\ Disambiguable(raw[l])
          /\ LeastExtension(raw[l]) = 0

Merged(a, b) ==
    [a EXCEPT !.end = b.end,
              !.search = @ \o Slice(b.search, a.end - b.start + 1, b.end - b.start),
              !.data = @ \o Slice(b.data, a.end - b.start + 1, b.end - b.start)]

\* C3: when section_merge meets adjacent sections A, B with A.end >= B.start,
\* each holding the bytes of its span, it replaces them by one section from
\* A.start to B.end whose search and data are A's followed by the bytes of B
\* at offsets A.end+1..=B.end.
C3_MergeCorrect ==
    [][(/\ pc = "merge_loop"
        /\ i < count
        /\ new_patch[i + 1].end >= new_patch[i + 2].start
        /\ HoldsSpan(new_patch[i + 1])
        /\ HoldsSpan(new_patch[i + 2]))
       => (/\ pc' = "merge_loop"
           /\ Len(new_patch') = Len(new_patch) - 1
           /\ new_patch'[i + 1] = Merged(new_patch[i + 1], new_patch[i + 2]))]_vars

\* The offsets at which pat occurs in buf
Occurrences(buf, pat) ==
    {k \in 0..(Len(buf) - Len(pat)) :
        \A j \in 0..(Len(pat) - 1) : At(buf, k + j) = At(pat, j)}

UniqueIn(buf, pat) == Cardinality(Occurrences(buf, pat)) = 1

\* C1: round trip.  With the source as reference and only_char off, if every
\* section of the written patch has a search pattern that occurs exactly once
\* in the source, applying the patch to the source succeeds and writes the
\* transformed buffer.
C1_RoundTrip ==
    (/\ mode = "Patch"
     /\ pc \in {"done", "panic"}
     /\ opt.test = None
     /\ ~opt.only_char
     /\ \A s \in SectionsOf(rbp[1]) : UniqueIn(input, s.search))
    => (pc = "done" /\ applied = "applied" /\ out = Some(patched))

\* C5: an application that does not match every section ends normally,
\* reports the failure and writes no output; in particular when the first
\* section's pattern occurs nowhere in the target, also when a proper prefix
\* of it matches at the tail of the target.  It never faults.
C5_FailureReported ==
    /\ fault # "apply_index"
    /\ (pc = "done" /\ section_index # Len(patch)) =>
           (applied = "failed" /\ out = None)
    /\ (/\ pc \in {"done", "panic"}
        /\ fault # "too_many_sections"
        /\ rbp[1] # <<>>
        /\ Occurrences(input, rbp[1][1].search) = {})
       => (pc = "done" /\ applied = "failed" /\ out = None)

\* The occurrences of every section's pattern in the target, summed
RECURSIVE TotalCount(_, _)
TotalCount(sections, k) ==
    IF k > Len(sections) THEN 0
    ELSE CountFrom(input, sections[k].search, 0, 0, FALSE)
         + TotalCount(sections, k + 1)

\* C7: with detect on, application aborts before the primary pass exactly when
\* the pattern occurrences in the target, summed over all sections, exceed the
\* number of sections.
C7_DetectAbortsOnTotal ==
    (opt.detect /\ pc # "apply") =>
        (fault = "too_many_sections" <=> TotalCount(rbp[1], 1) > Len(rbp[1]))
====
